---- MODULE Spec2Model ----
(***************************************************************************)
(* Model of scripts/get_device_id.py: the Olarm device-id retriever.       *)
(* One run of the script is a sequence of blocking steps (two prompts,     *)
(* the credential check, three HTTP calls); every step is a pure function  *)
(* of the run's state and of what the environment delivers to that step    *)
(* (typed text, Ctrl-C, end of input, an HTTP response, a transport        *)
(* failure).  Texts typed by the user are sequences of characters, so that *)
(* str.strip() is computed; texts sent by the server are strings.          *)
(***************************************************************************)
EXTENDS Integers, Sequences, FiniteSets, TLC

\* Longest text the user types at a prompt.
MaxLen == 2
\* Longest `devices` array the server returns.
MaxDevices == 2

Whitespace == {" "}
Chars == {" ", "a"}

Texts == UNION {[1..k -> Chars] : k \in 0..MaxLen}

----------------------------------------------------------------------------
(* Python values *)

\* None, as returned by dict.get(key) for a missing key.
None == "<None>"

\* bool(v) of a str-or-None value.
truthy(v) == v \notin {None, ""}

RECURSIVE lstrip(_)
lstrip(s) == IF s # <<>> /\ Head(s) \in Whitespace THEN lstrip(Tail(s)) ELSE s

RECURSIVE rstrip(_)
rstrip(s) ==
    IF s # <<>> /\ s[Len(s)] \in Whitespace
    THEN rstrip(SubSeq(s, 1, Len(s) - 1))
    ELSE s

\* str.strip()
strip(s) == rstrip(lstrip(s))

\* A dict with string keys and values is a set of <<key, value>> pairs, at
\* most one per key.
has_key(d, k) == \E p \in d : p[1] = k

\* dict.get(k, default)
dict_get(d, k, default) ==
    IF has_key(d, k) THEN (CHOOSE p \in d : p[1] = k)[2] ELSE default

----------------------------------------------------------------------------
(* What the environment delivers *)

\* An element of the `devices` array: a JSON object, or any other JSON value.
DeviceNames == {"Front Door"}
DeviceIds == {"dev-1"}
DeviceIMEIs == {"123456789012345"}

DeviceObjects ==
    { [isObject |-> TRUE, fields |-> n \cup i \cup m] :
        n \in {{}} \cup {{<<"deviceName", x>>} : x \in DeviceNames},
        i \in {{}} \cup {{<<"id", x>>} : x \in DeviceIds},
        m \in {{}} \cup {{<<"IMEI", x>>} : x \in DeviceIMEIs} }

NonObjectElement == [isObject |-> FALSE, fields |-> {}]

Elements == DeviceObjects \cup {NonObjectElement}

DeviceLists == UNION {[1..k -> Elements] : k \in 0..MaxDevices}

\* The `devices` member of a response object: absent, null, or an array.
DevicesAbsent == [tag |-> "absent", items |-> <<>>]
DevicesNull == [tag |-> "null", items |-> <<>>]
DevicesArray(l) == [tag |-> "array", items |-> l]

\* A response body: text that is no JSON, JSON that is no object, or a JSON
\* object with string members and possibly a `devices` member.
TextBody == [kind |-> "text", text |-> "<html>"]
OtherJsonBody == [kind |-> "json_other", text |-> "[]"]
ObjectBody(o, d) == [kind |-> "json_object", text |-> "{...}", obj |-> o, devices |-> d]

Messages == {{}, {<<"message", "denied">>}}
Tokens == {{}, {<<"oat", "">>}, {<<"oat", "tok123">>}}
UserIndexes == {{}, {<<"userIndex", "">>}, {<<"userIndex", "42">>}}

LoginBodies ==
    {TextBody, OtherJsonBody} \cup {ObjectBody(t, DevicesAbsent) : t \in Tokens}

UserIndexBodies ==
    {TextBody, OtherJsonBody} \cup {ObjectBody(u, DevicesAbsent) : u \in UserIndexes}

DevicesBodies ==
    {TextBody, OtherJsonBody}
      \cup {ObjectBody(m, DevicesAbsent) : m \in Messages}
      \cup {ObjectBody({}, DevicesNull)}
      \cup {ObjectBody({}, DevicesArray(l)) : l \in DeviceLists}

\* An error response carries any body without a device list, with or without
\* a `message` member.
ErrorBodies ==
    {TextBody, OtherJsonBody}
      \cup {ObjectBody(f \cup m, DevicesAbsent) :
               f \in Tokens \cup UserIndexes, m \in Messages}

SuccessStatuses == {200}
ErrorStatuses == {401, 500}

\* What one blocking step receives.
Typed(t) == [kind |-> "value", text |-> t]
Interrupt == [kind |-> "interrupt"]
EndOfInput == [kind |-> "eof"]
TransportFailure == [kind |-> "transport"]
Response(st, b) == [kind |-> "response", status |-> st, body |-> b]
Nothing == [kind |-> "nothing"]

PromptInputs == {Typed(t) : t \in Texts} \cup {Interrupt, EndOfInput}

CallOutcomes(bodies) ==
    {Interrupt, TransportFailure}
      \cup {Response(st, b) : st \in SuccessStatuses, b \in bodies}
      \cup {Response(st, b) : st \in ErrorStatuses, b \in ErrorBodies}

----------------------------------------------------------------------------
(* Standard output: one tuple per print statement (or group of them), its
   first element naming the statement *)

Banner == <<"banner">>
MissingCredentialsLine == <<"missing_credentials">>
StepLine(k) == <<"step", k>>
LoginOkLine == <<"login_ok">>
UserIndexOkLine(ui) == <<"user_index_ok", ui>>
DevicesOkLine(n) == <<"devices_ok", n>>
NoDevicesLine == <<"no_devices">>
DevicesHeader == <<"devices_header">>
DeviceLine(i, name, id, imei) == <<"device", i, name, id, imei>>
ErrorOpen(title) == <<"error_open", title>>
HttpErrorLine(status) == <<"http_error", status>>
MessageLine(m) == <<"message", m>>
ResponseLine(t) == <<"response", t>>
CredentialsTip == <<"tip_credentials">>
ConnectFailedLine == <<"connect_failed">>
ConnectionTip == <<"tip_connection">>
UnexpectedLine(type, msg) == <<"unexpected", type, msg>>
ErrorClose == <<"error_close">>
CancelledLine == <<"cancelled">>

\* The password placeholder of the configuration snippet.
YOUR_PASSWORD == <<"Y", "O", "U", "R", "_", "P", "A", "S", "S", "W", "O", "R", "D">>
SnippetLine(deviceId, email, pw) == <<"snippet", deviceId, email, pw>>

----------------------------------------------------------------------------
(* Requests *)

AUTH_BASE_URL == "https://auth.olarm.com"
LEGACY_API_BASE_URL == "https://api-legacy.olarm.com"

\* A request: its URL (host, path, the user index embedded in the path, the
\* oat query parameter), its Authorization header and its form body.
Request(call, method, host, path, pathUser, oat, bearer, form) ==
    [call |-> call, method |-> method, host |-> host, path |-> path,
     pathUser |-> pathUser, oat |-> oat, bearer |-> bearer, form |-> form]

NoForm == [present |-> FALSE, userEmailPhone |-> <<>>, userPass |-> <<>>,
           captchaToken |-> None]

login_request(email, password) ==
    Request("login", "POST", AUTH_BASE_URL, "/api/v4/oauth/login/mobile", "", "", "",
            [present |-> TRUE, userEmailPhone |-> email, userPass |-> password,
             captchaToken |-> None])

user_index_request(email, password, access_token) ==
    Request("user_index", "POST", AUTH_BASE_URL,
            "/api/v4/oauth/federated-link-existing", "", access_token, "",
            [present |-> TRUE, userEmailPhone |-> email, userPass |-> password,
             captchaToken |-> "olarmapp"])

devices_request(user_index, access_token) ==
    Request("devices", "GET", LEGACY_API_BASE_URL, "/api/v2/users/", user_index, "",
            access_token, NoForm)

----------------------------------------------------------------------------
(* The run *)

VARIABLES
    pc,             \* the blocking step the run is at, or "exited"
    email,          \* email, after strip()
    password,       \* password, as typed
    access_token,   \* access_token, None before login answers
    user_index,     \* user_index, None before the second call answers
    sent,           \* the requests issued on the session, in order
    out,            \* standard output, in order
    exit_code,      \* the process's exit status, -1 while it runs
    traceback,      \* the interpreter printed an uncaught exception's traceback
    json_error_is_request_exception,
                    \* the installed requests raises its own JSONDecodeError (a
                    \* RequestException) from Response.json(), as releases since
                    \* 2.27 do; earlier ones raise json.JSONDecodeError
    hist            \* what each step so far received, in order

vars == <<pc, email, password, access_token, user_index, sent, out, exit_code,
          traceback, json_error_is_request_exception, hist>>

State ==
    [pc |-> pc, email |-> email, password |-> password,
     access_token |-> access_token, user_index |-> user_index, sent |-> sent,
     out |-> out, exit_code |-> exit_code, traceback |-> traceback,
     json_error_is_request_exception |-> json_error_is_request_exception]

Start(j) ==
    [pc |-> "prompt_email", email |-> <<>>, password |-> <<>>,
     access_token |-> None, user_index |-> None, sent |-> <<>>, out |-> <<>>,
     exit_code |-> -1, traceback |-> FALSE,
     json_error_is_request_exception |-> j]

print(s, line) == [s EXCEPT !.out = Append(@, line)]

\* The process ends with this status.
exit(s, code) == [s EXCEPT !.pc = "exited", !.exit_code = code]

\* An exception: its class, its message and, for an HTTPError, the response.
Exc(type, msg) == [type |-> type, msg |-> msg]
HTTPError(status, body) ==
    [type |-> "HTTPError", msg |-> "", status |-> status, body |-> body]

\* An exception leaves main(): the `except KeyboardInterrupt` of the entry
\* point, or the interpreter's traceback and exit status 1.
entry_point(s, e) ==
    IF e.type = "KeyboardInterrupt"
    THEN exit(print(s, CancelledLine), 0)
    ELSE exit([s EXCEPT !.traceback = TRUE], 1)

\* `except requests.exceptions.HTTPError`
credentials_hint(status) == status = 401

except_HTTPError(s, e) ==
    LET s1 == print(print(s, ErrorOpen("ERROR")), HttpErrorLine(e.status))
        tail(s2) ==
            LET s3 == IF credentials_hint(e.status) THEN print(s2, CredentialsTip) ELSE s2
            IN  exit(print(s3, ErrorClose), 1)
    IN  CASE e.body.kind = "text" -> tail(print(s1, ResponseLine(e.body.text)))
          [] e.body.kind = "json_object" ->
                tail(print(s1, MessageLine(dict_get(e.body.obj, "message", e.body.text))))
          [] OTHER ->
                \* error_body.get on a value that is no dict
                entry_point(s1, Exc("AttributeError", "no attribute 'get'"))

\* `except requests.exceptions.RequestException`
except_RequestException(s, e) ==
    exit(print(print(print(print(s, ErrorOpen("NETWORK ERROR")), ConnectFailedLine),
                     ConnectionTip), ErrorClose), 1)

\* `except Exception`
except_Exception(s, e) ==
    exit(print(print(print(s, ErrorOpen("UNEXPECTED ERROR")),
                     UnexpectedLine(e.type, e.msg)), ErrorClose), 1)

\* The exception classes of requests.exceptions.RequestException raised here.
is_RequestException(type) ==
    type \in {"HTTPError", "ConnectionError", "requests.JSONDecodeError"}

is_Exception(type) == type # "KeyboardInterrupt"

\* The except clauses of main(), tried in order.
except_clauses(s, e) ==
    CASE e.type = "HTTPError" -> except_HTTPError(s, e)
      [] e.type # "HTTPError" /\ is_RequestException(e.type) -> except_RequestException(s, e)
      [] ~is_RequestException(e.type) /\ is_Exception(e.type) -> except_Exception(s, e)
      [] OTHER -> entry_point(s, e)

\* raise_for_status() raising for server errors only
raise_for_status_M(status) == 500 <= status /\ status < 600

\* Response.raise_for_status() raises HTTPError
raise_for_status(status) == 400 <= status /\ status < 600

\* The exception Response.json() raises on a body that is no JSON.
json_error(s) ==
    IF s.json_error_is_request_exception
    THEN Exc("requests.JSONDecodeError", "Expecting value")
    ELSE Exc("JSONDecodeError", "Expecting value")

NoExc == [raised |-> FALSE, e |-> Exc("", "")]
Raise(e) == [raised |-> TRUE, e |-> e]

\* What session.post / session.get, raise_for_status(), json() and the .get
\* on its result raise for the outcome o of a call, if anything.
call_raises(s, o) ==
    CASE o.kind = "interrupt" -> Raise(Exc("KeyboardInterrupt", ""))
      [] o.kind = "transport" -> Raise(Exc("ConnectionError", "connection failed"))
      [] o.kind = "response" /\ raise_for_status(o.status) ->
            Raise(HTTPError(o.status, o.body))
      [] o.kind = "response" /\ ~raise_for_status(o.status) /\ o.body.kind = "text" ->
            Raise(json_error(s))
      [] o.kind = "response" /\ ~raise_for_status(o.status) /\ o.body.kind = "json_other" ->
            Raise(Exc("AttributeError", "no attribute 'get'"))
      [] OTHER -> NoExc

\* The banner and input("Enter your Olarm account email: ").strip()
prompt_email(s, i) ==
    LET s1 == print(s, Banner)
    IN  CASE i.kind = "value" -> [s1 EXCEPT !.email = strip(i.text), !.pc = "prompt_password"]
          [] i.kind = "interrupt" -> entry_point(s1, Exc("KeyboardInterrupt", ""))
          [] OTHER -> entry_point(s1, Exc("EOFError", "EOF when reading a line"))

\* getpass.getpass("Enter your Olarm account password: ")
prompt_password(s, i) ==
    CASE i.kind = "value" -> [s EXCEPT !.password = i.text, !.pc = "check"]
      [] i.kind = "interrupt" -> entry_point(s, Exc("KeyboardInterrupt", ""))
      [] OTHER -> entry_point(s, Exc("EOFError", "EOF when reading a line"))

\* The check with the password forgotten: `not email`
credentials_missing_M(e, p) == e = <<>>

\* `not email or not password`
credentials_missing(e, p) == e = <<>> \/ p = <<>>

check_credentials(s) ==
    IF credentials_missing(s.email, s.password)
    THEN exit(print(s, MissingCredentialsLine), 1)
    ELSE [s EXCEPT !.pc = "login"]

\* The check as `access_token is None`: an empty token passes
token_missing_M(t) == t = None

\* `not access_token`
token_missing(t) == ~truthy(t)

\* Step 1: Login
login(s, o) ==
    LET s1 == [print(s, StepLine(1)) EXCEPT
                  !.sent = Append(@, login_request(s.email, s.password))]
        r == call_raises(s1, o)
        t == dict_get(o.body.obj, "oat", None)
    IN  IF r.raised THEN except_clauses(s1, r.e)
        ELSE IF token_missing(t)
        THEN except_clauses(
                 [s1 EXCEPT !.access_token = t],
                 Exc("ValueError", "Login failed - no access token received."))
        ELSE [print(s1, LoginOkLine) EXCEPT !.access_token = t, !.pc = "user_index"]

\* `not user_index`
user_index_missing(u) == ~truthy(u)

\* Step 2: Get user index
resolve_user_index(s, o) ==
    LET s1 == [print(s, StepLine(2)) EXCEPT
                  !.sent = Append(@, user_index_request(s.email, s.password,
                                                        s.access_token))]
        r == call_raises(s1, o)
        u == dict_get(o.body.obj, "userIndex", None)
    IN  IF r.raised THEN except_clauses(s1, r.e)
        ELSE IF user_index_missing(u)
        THEN except_clauses([s1 EXCEPT !.user_index = u],
                            Exc("ValueError", "User index not found."))
        ELSE [print(s1, UserIndexOkLine(u)) EXCEPT !.user_index = u, !.pc = "devices"]

\* The lookup without its default: devices_data.get('devices')
get_devices_M(body) ==
    IF body.devices.tag = "absent" THEN DevicesNull ELSE body.devices

\* devices_data.get('devices', [])
get_devices(body) ==
    IF body.devices.tag = "absent" THEN DevicesArray(<<>>) ELSE body.devices

\* `not devices`
no_devices(devices) == Len(devices) = 0

\* The three lines printed for the i-th device.
device_entry(i, device) ==
    DeviceLine(i,
               dict_get(device.fields, "deviceName", "Unnamed Device"),
               dict_get(device.fields, "id", "N/A"),
               dict_get(device.fields, "IMEI", "N/A"))

\* for i, device in enumerate(devices, 1): the output after the loop, and
\* whether device.get raised on an element that is no dict.
RECURSIVE for_devices(_, _, _)
for_devices(devices, i, s) ==
    IF i > Len(devices) THEN [s |-> s, raised |-> FALSE]
    ELSE IF ~devices[i].isObject THEN [s |-> s, raised |-> TRUE]
    ELSE for_devices(devices, i + 1, print(s, device_entry(i, devices[i])))

\* The snippet with the typed password in place of the placeholder
config_snippet_M(s, devices) ==
    SnippetLine(dict_get(devices[1].fields, "id", "YOUR_DEVICE_ID"), s.email,
                s.password)

\* The configuration instructions.
config_snippet(s, devices) ==
    SnippetLine(dict_get(devices[1].fields, "id", "YOUR_DEVICE_ID"), s.email,
                YOUR_PASSWORD)

\* Step 3: Get devices, and display results
list_devices(s, o) ==
    LET s1 == [print(s, StepLine(3)) EXCEPT
                  !.sent = Append(@, devices_request(s.user_index, s.access_token))]
        r == call_raises(s1, o)
        d == get_devices(o.body)
    IN  IF r.raised THEN except_clauses(s1, r.e)
        ELSE IF d.tag = "null"
        THEN except_clauses(s1, Exc("TypeError", "object of type 'NoneType' has no len()"))
        ELSE LET s2 == print(s1, DevicesOkLine(Len(d.items)))
             IN  IF no_devices(d.items) THEN exit(print(s2, NoDevicesLine), 0)
                 ELSE LET l == for_devices(d.items, 1, print(s2, DevicesHeader))
                      IN  IF l.raised
                          THEN except_clauses(l.s, Exc("AttributeError",
                                                       "no attribute 'get'"))
                          ELSE exit(print(l.s, config_snippet(l.s, d.items)), 0)

\* The step the run is at, applied to what it receives.
step(s, i) ==
    CASE s.pc = "prompt_email" -> prompt_email(s, i)
      [] s.pc = "prompt_password" -> prompt_password(s, i)
      [] s.pc = "check" -> check_credentials(s)
      [] s.pc = "login" -> login(s, i)
      [] s.pc = "user_index" -> resolve_user_index(s, i)
      [] s.pc = "devices" -> list_devices(s, i)
      [] OTHER -> s

----------------------------------------------------------------------------
(* The specification *)

Become(s, i) ==
    /\ pc' = s.pc
    /\ email' = s.email
    /\ password' = s.password
    /\ access_token' = s.access_token
    /\ user_index' = s.user_index
    /\ sent' = s.sent
    /\ out' = s.out
    /\ exit_code' = s.exit_code
    /\ traceback' = s.traceback
    /\ json_error_is_request_exception' = s.json_error_is_request_exception
    /\ hist' = Append(hist, i)

Init ==
    \E j \in BOOLEAN :
        /\ pc = "prompt_email"
        /\ email = <<>>
        /\ password = <<>>
        /\ access_token = None
        /\ user_index = None
        /\ sent = <<>>
        /\ out = <<>>
        /\ exit_code = -1
        /\ traceback = FALSE
        /\ json_error_is_request_exception = j
        /\ hist = <<>>

PromptEmail ==
    /\ pc = "prompt_email"
    /\ \E i \in PromptInputs : Become(prompt_email(State, i), i)

PromptPassword ==
    /\ pc = "prompt_password"
    /\ \E i \in PromptInputs : Become(prompt_password(State, i), i)

CheckCredentials ==
    /\ pc = "check"
    /\ Become(check_credentials(State), Nothing)

Login ==
    /\ pc = "login"
    /\ \E o \in CallOutcomes(LoginBodies) : Become(login(State, o), o)

ResolveUserIndex ==
    /\ pc = "user_index"
    /\ \E o \in CallOutcomes(UserIndexBodies) : Become(resolve_user_index(State, o), o)

ListDevices ==
    /\ pc = "devices"
    /\ \E o \in CallOutcomes(DevicesBodies) : Become(list_devices(State, o), o)

Next ==
    \/ PromptEmail
    \/ PromptPassword
    \/ CheckCredentials
    \/ Login
    \/ ResolveUserIndex
    \/ ListDevices

Spec == Init /\ [][Next]_vars

----------------------------------------------------------------------------
(* Vocabulary of the properties: what the run received and what it did *)

Exited == pc = "exited"

\* hist[1] is the typed email, hist[2] the typed password, hist[3] the
\* credential check and hist[3 + k] the outcome of call k.
CallStep(k) == 3 + k
Ran(n) == Len(hist) >= n

BothTyped == Ran(2) /\ hist[1].kind = "value" /\ hist[2].kind = "value"

WhitespaceOnly(t) == \A i \in DOMAIN t : t[i] \in Whitespace

\* e is the text raw without the whitespace around it.
IsTrimOf(e, raw) ==
    \E i \in 0..Len(raw) :
        /\ i + Len(e) <= Len(raw)
        /\ e = SubSeq(raw, i + 1, i + Len(e))
        /\ \A j \in 1..Len(raw) : (j <= i \/ j > i + Len(e)) => raw[j] \in Whitespace
        /\ e # <<>> => e[1] \notin Whitespace /\ e[Len(e)] \notin Whitespace

Answered(k) == Ran(CallStep(k)) /\ hist[CallStep(k)].kind = "response"
HttpSuccess(k) == Answered(k) /\ hist[CallStep(k)].status < 400
HttpFailure(k) == Answered(k) /\ hist[CallStep(k)].status >= 400
TransportFailed(k) == Ran(CallStep(k)) /\ hist[CallStep(k)].kind = "transport"
Interrupted(n) == Ran(n) /\ hist[n].kind = "interrupt"

\* The body of the answer to call k is a JSON object with a non-empty f.
Carries(k, f) ==
    /\ Answered(k)
    /\ hist[CallStep(k)].body.kind = "json_object"
    /\ \E p \in hist[CallStep(k)].body.obj : p[1] = f /\ p[2] # ""

ExpectedField(k) == IF k = 1 THEN "oat" ELSE "userIndex"

\* The device array of the answer to call 3; empty when absent.
DevicesReturned ==
    IF /\ Answered(3)
       /\ hist[CallStep(3)].body.kind = "json_object"
       /\ hist[CallStep(3)].body.devices.tag = "array"
    THEN hist[CallStep(3)].body.devices.items
    ELSE <<>>

DevicesListed ==
    /\ HttpSuccess(3)
    /\ hist[CallStep(3)].body.kind = "json_object"
    /\ hist[CallStep(3)].body.devices.tag \in {"absent", "array"}

Calls == [k \in DOMAIN sent |-> sent[k].call]
CallOrder == <<"login", "user_index", "devices">>

Printed(kind) == \E i \in DOMAIN out : out[i][1] = kind
PrintedLine(l) == \E i \in DOMAIN out : out[i] = l
Count(kind) == Cardinality({i \in DOMAIN out : out[i][1] = kind})
IsDeviceLine(l) == l[1] = "device"
DeviceEntries == SelectSeq(out, IsDeviceLine)
Opened(title) == PrintedLine(ErrorOpen(title))

\* The run from its start on the inputs h.
RECURSIVE replay(_, _)
replay(s, h) == IF h = <<>> THEN s ELSE replay(step(s, Head(h)), Tail(h))

----------------------------------------------------------------------------
(* C1 *)

\* C1, as stated: when the typed email or the typed password is empty or
\* whitespace-only, the run issues no request and, once the credential check
\* has run, has exited with status 1.
C1_AsStated ==
    (BothTyped /\ (WhitespaceOnly(hist[1].text) \/ WhitespaceOnly(hist[2].text)))
        => /\ sent = <<>>
           /\ Ran(3) => Exited /\ exit_code = 1

\* C1, amended: when the typed email is empty or whitespace-only, or the typed
\* password is empty (it is not trimmed), the run issues no request and, once
\* the credential check has run, has exited with status 1 after printing the
\* "required" message.
C1_MissingCredentials ==
    (BothTyped /\ (WhitespaceOnly(hist[1].text) \/ hist[2].text = <<>>))
        => /\ sent = <<>>
           /\ Ran(3) => /\ Exited /\ exit_code = 1
                        /\ out[Len(out)] = MissingCredentialsLine

\* A whitespace-only email, typed with a password, was rejected.
C1_Witness ==
    /\ BothTyped /\ Ran(3) /\ Exited
    /\ hist[1].text # <<>> /\ WhitespaceOnly(hist[1].text)
    /\ hist[2].text # <<>>

----------------------------------------------------------------------------
(* C2 *)

\* C2: the user-index call has been issued only if login answered with a
\* non-empty oat, which is the token the call carries; the device-list call
\* only if the user-index call answered with a non-empty userIndex, which is
\* the index in its path; and a success answer of call 1 or 2 without its
\* field ends the run with status 1 and no further call.
C2_IdentifiersBeforeCalls ==
    /\ \A k \in DOMAIN sent :
          /\ sent[k].call = "user_index"
                => /\ HttpSuccess(1) /\ Carries(1, "oat")
                   /\ truthy(access_token) /\ sent[k].oat = access_token
                   /\ <<"oat", access_token>> \in hist[CallStep(1)].body.obj
          /\ sent[k].call = "devices"
                => /\ HttpSuccess(2) /\ Carries(2, "userIndex")
                   /\ truthy(user_index) /\ sent[k].pathUser = user_index
                   /\ sent[k].bearer = access_token
                   /\ <<"userIndex", user_index>> \in hist[CallStep(2)].body.obj
    /\ \A k \in {1, 2} :
          (HttpSuccess(k) /\ hist[CallStep(k)].body.kind = "json_object"
                          /\ ~Carries(k, ExpectedField(k)))
              => /\ Exited /\ exit_code = 1 /\ Len(sent) = k
                 /\ PrintedLine(ErrorClose)

\* Call 2 answered 200 with an object that has an empty userIndex.
C2_Witness ==
    /\ HttpSuccess(2)
    /\ hist[CallStep(2)].body.kind = "json_object"
    /\ <<"userIndex", "">> \in hist[CallStep(2)].body.obj
    /\ Exited /\ Len(sent) = 2

----------------------------------------------------------------------------
(* C3 *)

\* A call fails: no answer, an error status, or a body without its field.
CallFailed(k) ==
    \/ TransportFailed(k)
    \/ HttpFailure(k)
    \/ HttpSuccess(k) /\ k \in {1, 2} /\ ~Carries(k, ExpectedField(k))
    \/ HttpSuccess(k) /\ k = 3 /\ hist[CallStep(k)].body.kind # "json_object"

\* C3: the calls issued are a prefix of login, user-index, device-list, one
\* call per step that has run, and the run has exited right after a call
\* that failed.
C3_CallsArePrefix ==
    /\ Len(sent) <= Len(CallOrder)
    /\ Calls = SubSeq(CallOrder, 1, Len(sent))
    /\ \A k \in 1..3 : Ran(CallStep(k)) => Len(sent) >= k
    /\ \A k \in 1..3 : CallFailed(k) => Exited /\ exit_code = 1 /\ Len(sent) = k

\* Call 2 got an error status after login succeeded.
C3_Witness == HttpFailure(2) /\ Exited /\ Calls = <<"login", "user_index">>

----------------------------------------------------------------------------
(* C4 *)

\* C4: when the device-list call is answered with success and an object
\* whose devices member is absent or an empty array, the run prints the "no
\* devices" message, no device entry, no snippet and no error block, and
\* exits with status 0.
C4_NoDevicesIsSuccess ==
    (DevicesListed /\ DevicesReturned = <<>>)
        => /\ Exited /\ exit_code = 0 /\ ~traceback
           /\ out[Len(out)] = NoDevicesLine
           /\ ~Printed("device") /\ ~Printed("snippet") /\ ~Printed("error_open")
           /\ PrintedLine(DevicesOkLine(0))

\* The server answered {"devices": []}.
C4_Witness ==
    /\ DevicesListed
    /\ hist[CallStep(3)].body.devices = DevicesArray(<<>>)
    /\ Exited

----------------------------------------------------------------------------
(* C5 *)

\* C5, as stated: whenever a call is answered with status 401, whatever the
\* body, the run exits with status 1, having printed the status code and the
\* credential hint and issued no later call; and the credential hint is
\* printed for no other status.
C5_AsStated ==
    /\ \A k \in 1..3 :
          (Answered(k) /\ hist[CallStep(k)].status = 401)
              => /\ Exited /\ exit_code = 1 /\ Len(sent) = k
                 /\ PrintedLine(HttpErrorLine(401))
                 /\ PrintedLine(CredentialsTip)
    /\ PrintedLine(CredentialsTip)
          => \E k \in 1..3 : Answered(k) /\ hist[CallStep(k)].status = 401

----------------------------------------------------------------------------
(* C6 *)

\* The entry the listing owes to the i-th element of the array.
ExpectedEntry(i, element) ==
    LET f(key, default) ==
            IF \E p \in element.fields : p[1] = key
            THEN (CHOOSE p \in element.fields : p[1] = key)[2]
            ELSE default
    IN  DeviceLine(i, f("deviceName", "Unnamed Device"), f("id", "N/A"), f("IMEI", "N/A"))

\* C6, as stated: when the device-list call returns a non-empty array of n
\* elements, the listing has exactly n entries, the i-th built from the i-th
\* element with the defaults for its missing members, and none is skipped.
C6_AsStated ==
    (DevicesListed /\ DevicesReturned # <<>>)
        => /\ Exited
           /\ DeviceEntries =
                 [i \in 1..Len(DevicesReturned) |-> ExpectedEntry(i, DevicesReturned[i])]

----------------------------------------------------------------------------
(* C7 *)

\* C7, as stated: a run that exits with status 1 has printed no device entry
\* and no configuration snippet; device data is printed only by runs in
\* which all three calls succeeded and which exit with status 0.
C7_AsStated ==
    /\ (Exited /\ exit_code = 1) => ~Printed("device") /\ ~Printed("snippet")
    /\ (Printed("device") \/ Printed("snippet"))
          => /\ Carries(1, "oat") /\ Carries(2, "userIndex") /\ DevicesListed
             /\ Exited => exit_code = 0

----------------------------------------------------------------------------
(* C8 *)

AllCallsSucceeded ==
    /\ HttpSuccess(1) /\ Carries(1, "oat")
    /\ HttpSuccess(2) /\ Carries(2, "userIndex")
    /\ DevicesListed

InterruptedWhilePrompting == Interrupted(1) \/ Interrupted(2)
InterruptedInCall == \E k \in 1..3 : Interrupted(CallStep(k))

\* C8: a run exits with status 0 or 1; with 0 when all three calls succeeded
\* or the user interrupted a prompt, and with 0 only then; and a run that
\* exits with status 1 after the credential check has printed exactly one
\* complete error block.  The interrupt is caught around the whole of main,
\* so a run interrupted in a blocked call exits with 0 too: "only then" is
\* not asked of that run here.  The claim as stated, which asks it of every
\* run, implies this formula.
C8_ExitStatus ==
    Exited
        => /\ exit_code \in {0, 1}
           /\ (AllCallsSucceeded \/ InterruptedWhilePrompting) => exit_code = 0
           /\ exit_code = 0
                 => AllCallsSucceeded \/ InterruptedWhilePrompting \/ InterruptedInCall
           /\ (exit_code = 1 /\ Ran(CallStep(1)))
                 => /\ Count("error_open") = 1
                    /\ Count("error_close") = 1
                    /\ out[Len(out)] = ErrorClose

----------------------------------------------------------------------------
(* C9 *)

\* A call was answered with success but its body is unusable: no JSON, no
\* object, or an object without the expected field.
UnusableSuccess(k) ==
    /\ HttpSuccess(k)
    /\ \/ hist[CallStep(k)].body.kind # "json_object"
       \/ k \in {1, 2} /\ ~Carries(k, ExpectedField(k))

\* C9, as stated: the HTTP-error block is printed exactly when a call was
\* answered with an error status; the network-error block, with the
\* connectivity hint, exactly when a call got no answer; and a call answered
\* with success but an unusable body is reported with the unexpected-error
\* block carrying the error's kind and message, and with neither of the
\* other two.
C9_AsStated ==
    Exited
        => /\ Opened("ERROR") <=> \E k \in 1..3 : HttpFailure(k)
           /\ Opened("NETWORK ERROR") <=> \E k \in 1..3 : TransportFailed(k)
           /\ Opened("NETWORK ERROR") <=> PrintedLine(ConnectionTip)
           /\ \A k \in 1..3 :
                 UnusableSuccess(k)
                     => /\ Opened("UNEXPECTED ERROR") /\ Printed("unexpected")
                        /\ ~Opened("NETWORK ERROR") /\ ~Opened("ERROR")

----------------------------------------------------------------------------
(* C10 *)

\* The run that receives what this one received, but p as the password.
WithPassword(p) ==
    replay(Start(json_error_is_request_exception), [hist EXCEPT ![2] = Typed(p)])

\* A request without the password field of its form.
Redacted(r) == [r EXCEPT !.form.userPass = <<>>]

\* The password every run is compared with.
ReferencePassword == <<"a">>

\* C10: the run with the reference password, the same email and the same
\* answers prints the same output, ends the same way and issues the same
\* requests up to the userPass member of the forms of calls 1 and 2, which is
\* the password of each run (so any two runs that differ in a non-empty
\* password only print the same, both printing what the reference run
\* prints); the device-list call carries no form; and the snippet carries the
\* email, the first device's id or the placeholder, and the password
\* placeholder.
C10_PasswordNeverEchoed ==
    (BothTyped /\ hist[2].text # <<>>)
        => /\ LET other == WithPassword(ReferencePassword)
               IN  /\ other.out = out
                   /\ other.exit_code = exit_code
                   /\ Len(other.sent) = Len(sent)
                   /\ \A k \in DOMAIN sent :
                         /\ Redacted(other.sent[k]) = Redacted(sent[k])
                         /\ other.sent[k].form.userPass =
                               (IF k \in {1, 2} THEN ReferencePassword ELSE <<>>)
                         /\ sent[k].form.userPass =
                               (IF k \in {1, 2} THEN hist[2].text ELSE <<>>)
           /\ \A k \in DOMAIN sent : sent[k].form.present <=> k \in {1, 2}
           /\ \A i \in DOMAIN out :
                 out[i][1] = "snippet"
                     => \E id \in DeviceIds \cup {"YOUR_DEVICE_ID"} :
                           /\ out[i] = SnippetLine(id, email, YOUR_PASSWORD)
                           /\ IsTrimOf(email, hist[1].text)
                           /\ id \in DeviceIds
                                 <=> <<"id", id>> \in DevicesReturned[1].fields

\* The snippet was printed by a run whose password is not the reference one.
C10_Witness ==
    Printed("snippet") /\ password \notin {<<>>, ReferencePassword} /\ Len(sent) = 3

\* The state is the run from its start on the inputs received so far.
ReplayIsRun == replay(Start(json_error_is_request_exception), hist) = State

====
